---- MODULE Spec2Model ----
(***************************************************************************)
(* Model of the multi-modal RAG demo: the retriever of src/main.py         *)
(* (index_data, search, hybrid_search) over the two vector-store           *)
(* collections, and the evaluator calculate_metrics of src/eval*.py.       *)
(***************************************************************************)
EXTENDS Integers, Sequences, FiniteSets, TLC

VARIABLES
    catalog,           \* data/descriptions.json: the items, in file order
    text_collection,   \* records of collection "product_descriptions"
    image_collection,  \* records of collection "product_images"
    args,              \* the arguments of the retriever calls, and which of
                       \* their external calls fail
    call,              \* the last call made: the operation
    outcome,           \* what that call gave its caller: results or the raised error
    store_log,         \* the store queries that call issued, in order
    caught,            \* the per-modality errors that call caught and printed
    vision_calls,      \* the images that call handed to the vision model, in order
    llm_requests,      \* the completion requests that call made, in order
    answer,            \* what answer_question returned, when that call was one
    predicted,         \* calculate_metrics: the predicted filename list
    expected,          \* calculate_metrics: the expected filename list
    metrics            \* what calculate_metrics returned for them

vars == <<catalog, text_collection, image_collection, args, call, outcome,
          store_log, caught, vision_calls, llm_requests, answer, predicted,
          expected, metrics>>

retrieverVars == <<catalog, text_collection, image_collection, args, call,
                   outcome, store_log, caught, vision_calls, llm_requests, answer>>

metricsVars == <<predicted, expected, metrics>>

(***************************************************************************)
(* Bounds of the model.                                                    *)
(***************************************************************************)
\* n_results ranges over 1..MaxN
MaxN == 2
\* predicted and expected lists have at most MaxLen entries
MaxLen == 3
\* at most MaxFailedDownloads products are missing from the catalog
MaxFailedDownloads == 1

(***************************************************************************)
(* Sequence helpers.                                                       *)
(***************************************************************************)
Range(s) == {s[i] : i \in 1..Len(s)}

Min(a, b) == IF a <= b THEN a ELSE b

Take(s, k) == SubSeq(s, 1, Min(k, Len(s)))

SeqsUpTo(S, k) == UNION {[1..m -> S] : m \in 0..k}

(***************************************************************************)
(* The product catalog (generate_data.py writes it to descriptions.json).  *)
(***************************************************************************)
PRODUCTS ==
    << [filename |-> "red_running_shoes.jpg", name |-> "Running Shoes",
        color |-> "red", description |-> "Red athletic running shoes",
        category |-> "footwear", price |-> 120],
       [filename |-> "white_sneakers.jpg", name |-> "Sneakers",
        color |-> "white", description |-> "Classic white leather sneakers",
        category |-> "footwear", price |-> 85],
       [filename |-> "silver_laptop.jpg", name |-> "Laptop",
        color |-> "silver", description |-> "15-inch laptop",
        category |-> "electronics", price |-> 1299],
       [filename |-> "white_headphones.jpg", name |-> "Headphones",
        color |-> "white", description |-> "Noise-canceling wireless headphones",
        category |-> "electronics", price |-> 249] >>

\* download_images: a product whose download fails is left out of the catalog
Downloaded(ok) ==
    LET F[i \in 0..Len(PRODUCTS)] ==
            IF i = 0 THEN <<>>
            ELSE IF i \in ok THEN Append(F[i - 1], PRODUCTS[i]) ELSE F[i - 1]
    IN  F[Len(PRODUCTS)]

\* the catalogs of the model
Catalogs ==
    {Downloaded(ok) : ok \in {S \in SUBSET (1..Len(PRODUCTS)) :
                                 /\ S # {}
                                 /\ Cardinality(S) >= Len(PRODUCTS) - MaxFailedDownloads}}

(***************************************************************************)
(* External services: the sentence embedder and the vision model.  Both    *)
(* are functions of their input; a call may also fail (the environment of  *)
(* a call says which calls fail).                                          *)
(***************************************************************************)
\* index_data: the text indexed for a catalog item
TextContent(info) ==
    info.name \o " - " \o info.description \o " - " \o info.color
              \o " - " \o info.category

\* get_image_description_from_claude: the caption the vision model gives
VisionCaption(filename) ==
    CASE filename = "red_running_shoes.jpg" -> "Red mesh running shoe with laces"
      [] filename = "white_sneakers.jpg" -> "White leather sneaker with laces"
      [] filename = "silver_laptop.jpg" -> "Open silver laptop with a screen"
      [] filename = "white_headphones.jpg" -> "White over-ear headphones"
      [] OTHER -> "A product"

\* the texts index_data embeds for the products
IndexedTexts == [i \in 1..Len(PRODUCTS) |-> TextContent(PRODUCTS[i])]

Captions == [i \in 1..Len(PRODUCTS) |-> VisionCaption(PRODUCTS[i].filename)]

\* text_embedder.encode: a fixed vector per text (one coordinate here)
encode(text) ==
    CASE text = IndexedTexts[1] -> 1
      [] text = IndexedTexts[2] -> 3
      [] text = IndexedTexts[3] -> 8
      [] text = IndexedTexts[4] -> 6
      [] text = Captions[1] -> 2
      [] text = Captions[2] -> 2
      [] text = Captions[3] -> 9
      [] text = Captions[4] -> 5
      [] text = "Show me red footwear" -> 0
      [] text = "What electronics under $300?" -> 7
      [] OTHER -> 4

\* the store's distance between two vectors (squared L2)
Distance(a, b) == (a - b) * (a - b)

(***************************************************************************)
(* Filters and the store's predicates.  A metadata value is a string or a  *)
(* number; a filter is None or a dict, a dict being the sequence of its    *)
(* entries in insertion order, with distinct keys.                         *)
(***************************************************************************)
Str(s) == [t |-> "str", s |-> s, i |-> 0]

Num(i) == [t |-> "num", s |-> "", i |-> i]

\* an entry key: value with a plain value
Plain(key, v) == [key |-> key, is_dict |-> FALSE, op |-> "", value |-> v]

\* an entry key: {op: value}
Ranged(key, op, v) == [key |-> key, is_dict |-> TRUE, op |-> op, value |-> v]

None == [none |-> TRUE, items |-> <<>>]

Dict(items) == [none |-> FALSE, items |-> items]

\* Python truthiness of a filters argument: None and {} are falsy
Truthy(filters) == ~filters.none /\ Len(filters.items) > 0

\* the store's predicate {key: {op: value}}
Cond(key, op, v) == [key |-> key, op |-> op, value |-> v]

NoWhere == [kind |-> "none", conds |-> <<>>]

\* the conditions of the filters, the last entry left out
WhereConditionsMissingLast(filters) ==
    [k \in 1..(Len(filters.items) - 1) |->
        LET e == filters.items[k]
        IN  IF e.is_dict THEN Cond(e.key, e.op, e.value)
            ELSE Cond(e.key, "$eq", e.value)]

\* hybrid_search: where_conditions, one predicate per entry of the filters
WhereConditions(filters) ==
    [k \in 1..Len(filters.items) |->
        LET e == filters.items[k]
        IN  IF e.is_dict THEN Cond(e.key, e.op, e.value)
            ELSE Cond(e.key, "$eq", e.value)]

\* hybrid_search handing no predicate to the store
WhereClauseDropped(filters) == NoWhere

\* hybrid_search: the where clause built from the filters
WhereClause(filters) ==
    IF Truthy(filters)
    THEN LET where_conditions == WhereConditions(filters)
         IN  IF Len(where_conditions) = 1
             THEN [kind |-> "cond", conds |-> where_conditions]
             ELSE [kind |-> "and", conds |-> where_conditions]
    ELSE NoWhere

(***************************************************************************)
(* The vector store: a collection is the sequence of its records in        *)
(* insertion order; query(vector, n, predicate) answers with the n nearest *)
(* records among those that satisfy the predicate, nearest first.          *)
(***************************************************************************)
StoreOps == {"$eq", "$lt", "$gt"}

\* the store rejects a predicate it does not understand
ValidCond(c) ==
    /\ c.op \in StoreOps
    /\ c.op \in {"$lt", "$gt"} => c.value.t = "num"

ValidWhere(where) == \A k \in 1..Len(where.conds) : ValidCond(where.conds[k])

FieldVal(meta, key) == IF key = "price" THEN Num(meta.price) ELSE Str(meta[key])

Satisfies(meta, c) ==
    /\ c.key \in DOMAIN meta
    /\ LET mv == FieldVal(meta, c.key)
       IN  CASE c.op = "$eq" -> mv = c.value
             [] c.op = "$lt" -> mv.t = "num" /\ c.value.t = "num" /\ mv.i < c.value.i
             [] c.op = "$gt" -> mv.t = "num" /\ c.value.t = "num" /\ mv.i > c.value.i
             [] OTHER -> FALSE

Matches(meta, where) == \A k \in 1..Len(where.conds) : Satisfies(meta, where.conds[k])

\* the positions of the records, nearest first, ties in insertion order
RankedPositions(collection, query_embedding, S) ==
    LET d(i) == Distance(collection[i].embedding, query_embedding)
        Before(j, i) == d(j) < d(i) \/ (d(j) = d(i) /\ j < i)
        rank(i) == Cardinality({j \in S : Before(j, i)}) + 1
    IN  [r \in 1..Cardinality(S) |-> CHOOSE i \in S : rank(i) = r]

Hit(collection, query_embedding, i) ==
    [id |-> collection[i].id, document |-> collection[i].document,
     metadata |-> collection[i].metadata,
     distance |-> Distance(collection[i].embedding, query_embedding)]

\* collection.query, restricting after ranking instead of before
QueryPostFilter(collection, query_embedding, n_results, where) ==
    LET S == 1..Len(collection)
        order == Take(RankedPositions(collection, query_embedding, S), n_results)
        kept == SelectSeq(order, LAMBDA i : Matches(collection[i].metadata, where))
    IN  [r \in 1..Len(kept) |-> Hit(collection, query_embedding, kept[r])]

\* collection.query(query_embeddings, n_results, where)
Query(collection, query_embedding, n_results, where) ==
    LET S == {i \in 1..Len(collection) : Matches(collection[i].metadata, where)}
        order == Take(RankedPositions(collection, query_embedding, S), n_results)
    IN  [r \in 1..Len(order) |-> Hit(collection, query_embedding, order[r])]

\* the request a call hands to the store
Request(collection_name, n_results, where) ==
    [collection |-> collection_name, n_results |-> n_results, where |-> where]

(***************************************************************************)
(* What a retriever call gives back.                                       *)
(***************************************************************************)
\* the call raised: its caller gets the exception and no result
Raised(kind, log) ==
    [outcome |-> [raised |-> kind, keys |-> {}, text_results |-> <<>>,
                  image_results |-> <<>>],
     log |-> log, caught |-> <<>>]

\* the call returned the results dict
Returned(keys, text_results, image_results, log, errors) ==
    [outcome |-> [raised |-> "none", keys |-> keys, text_results |-> text_results,
                  image_results |-> image_results],
     log |-> log, caught |-> errors]

\* a store query as the log keeps it: the request and the store's answer
Answered(request, hits) ==
    [request |-> request, status |-> "ok", hits |-> hits]

Failed(request) ==
    [request |-> request, status |-> "error", hits |-> <<>>]

\* search / hybrid_search: the entries appended for the first k hits
TextEntries(hits, k) ==
    [i \in 1..k |-> [content |-> hits[i].document,
                     metadata |-> hits[i].metadata,
                     distance |-> hits[i].distance]]

ImageEntries(hits, k) ==
    [i \in 1..k |-> [visual_description |-> hits[i].document,
                     metadata |-> hits[i].metadata,
                     distance |-> hits[i].distance]]

(***************************************************************************)
(* MultiModalRAG.search                                                    *)
(***************************************************************************)
\* search asking the store for twice the results
SearchRequestDoubled(name, n_results) == Request(name, n_results * 2, NoWhere)

\* search: the query of one collection, unfiltered, for n_results records
SearchRequest(name, n_results) == Request(name, n_results, NoWhere)

search(tc, ic, query, n_results, search_images, search_text, env) ==
    IF env.embed THEN Raised("embedding", <<>>)
    ELSE
    LET query_embedding == encode(query)
        keys == {"query", "text_results", "image_results"}
        treq == SearchRequest("text", n_results)
        ireq == SearchRequest("image", n_results)
        thits == Query(tc, query_embedding, treq.n_results, treq.where)
        ihits == Query(ic, query_embedding, ireq.n_results, ireq.where)
        tlog == IF search_text THEN <<Answered(treq, thits)>> ELSE <<>>
        text_results == IF search_text THEN TextEntries(thits, Len(thits)) ELSE <<>>
    IN  IF search_text /\ env.text THEN Raised("store", <<Failed(treq)>>)
        ELSE IF search_images /\ env.image
             THEN Raised("store", Append(tlog, Failed(ireq)))
        ELSE IF search_images
             THEN Returned(keys, text_results, ImageEntries(ihits, Len(ihits)),
                           Append(tlog, Answered(ireq, ihits)), <<>>)
        ELSE Returned(keys, text_results, <<>>, tlog, <<>>)

(***************************************************************************)
(* MultiModalRAG.hybrid_search                                             *)
(***************************************************************************)
\* hybrid_search asking the store for n_results records only
OverfetchNone(n_results) == n_results

\* n_results * 2: the number of candidates hybrid_search asks the store for
Overfetch(n_results) == n_results * 2

\* range(...) over every hit the store returned
TruncationNone(n_results, hits) == Len(hits)

\* range(min(n_results, len(ids))): how many of the hits hybrid_search keeps
Truncation(n_results, hits) == Min(n_results, Len(hits))

\* the error an except clause of hybrid_search catches and prints
Caught(name, where_clause) ==
    [modality |-> name,
     error |-> IF ~ValidWhere(where_clause) THEN "invalid where" ELSE "connection"]

\* one modality of hybrid_search: the query, its truncation, the except clause
HybridModality(collection, name, query_embedding, n_results, where_clause, fails) ==
    LET req == Request(name, Overfetch(n_results), where_clause)
        hits == Query(collection, query_embedding, req.n_results, where_clause)
    IN  IF fails \/ ~ValidWhere(where_clause)
        THEN [hits |-> <<>>, k |-> 0, log |-> <<Failed(req)>>,
              caught |-> <<Caught(name, where_clause)>>]
        ELSE [hits |-> hits, k |-> Truncation(n_results, hits),
              log |-> <<Answered(req, hits)>>, caught |-> <<>>]

Skipped == [hits |-> <<>>, k |-> 0, log |-> <<>>, caught |-> <<>>]

\* hybrid_search with both store queries inside one try block
hybrid_search_one_try(tc, ic, query, n_results, filters, search_images, search_text, env) ==
    IF env.embed THEN Raised("embedding", <<>>)
    ELSE
    LET query_embedding == encode(query)
        keys == {"query", "filters", "text_results", "image_results"}
        where_clause == WhereClause(filters)
        t == IF search_text
             THEN HybridModality(tc, "text", query_embedding, n_results,
                                 where_clause, env.text)
             ELSE Skipped
        m == IF search_images /\ t.caught = <<>>
             THEN HybridModality(ic, "image", query_embedding, n_results,
                                 where_clause, env.image)
             ELSE Skipped
    IN  Returned(keys, TextEntries(t.hits, t.k), ImageEntries(m.hits, m.k),
                 t.log \o m.log, t.caught \o m.caught)

hybrid_search(tc, ic, query, n_results, filters, search_images, search_text, env) ==
    IF env.embed THEN Raised("embedding", <<>>)
    ELSE
    LET query_embedding == encode(query)
        keys == {"query", "filters", "text_results", "image_results"}
        where_clause == WhereClause(filters)
        t == IF search_text
             THEN HybridModality(tc, "text", query_embedding, n_results,
                                 where_clause, env.text)
             ELSE Skipped
        m == IF search_images
             THEN HybridModality(ic, "image", query_embedding, n_results,
                                 where_clause, env.image)
             ELSE Skipped
    IN  Returned(keys, TextEntries(t.hits, t.k), ImageEntries(m.hits, m.k),
                 t.log \o m.log, t.caught \o m.caught)

(***************************************************************************)
(* rag.smart_search: class MultiModalRAG defines __init__,                 *)
(* load_image_as_base64, get_image_description_from_claude, index_data,    *)
(* search, hybrid_search and answer_question and no smart_search, so the   *)
(* attribute lookup on the instance raises AttributeError before anything  *)
(* is embedded or asked of the store.                                      *)
(***************************************************************************)
smart_search(tc, ic, query, n_results) == Raised("attribute", <<>>)

(***************************************************************************)
(* MultiModalRAG.answer_question                                           *)
(***************************************************************************)
\* n_results=3: the hits answer_question retrieves per modality
AnswerTopN == 3

\* max_tokens of the completion request
AnswerMaxTokens == 500

TextLines(text_results) ==
    [i \in 1..Len(text_results) |-> "- " \o text_results[i].content]

VisualLines(image_results) ==
    [i \in 1..Len(image_results) |->
        "- " \o image_results[i].visual_description
             \o " (from " \o image_results[i].metadata.filename \o ")"]

\* the context with the visual section ahead of the text section
ContextVisualFirst(text_results, image_results) ==
    <<"\nVISUAL DESCRIPTIONS:">> \o VisualLines(image_results)
        \o <<"TEXT DESCRIPTIONS:">> \o TextLines(text_results)

\* answer_question: context_parts, the lines of the context
Context(text_results, image_results) ==
    <<"TEXT DESCRIPTIONS:">> \o TextLines(text_results)
        \o <<"\nVISUAL DESCRIPTIONS:">> \o VisualLines(image_results)

\* the completion request: model, token budget and the prompt's two parts
CompletionRequest(context, query) ==
    [model |-> "gpt-4o", max_tokens |-> AnswerMaxTokens, context |-> context,
     question |-> query]

\* the language model's answer, a function of the request
Completion(request) ==
    "Answer to '" \o request.question \o "' from "
        \o ToString(Len(request.context)) \o " lines"

\* answer_question(query): search, then one completion request
answer_question(tc, ic, query, env, llm_fails) ==
    LET s == search(tc, ic, query, AnswerTopN, TRUE, TRUE, env)
        search_results == s.outcome
        request == CompletionRequest(
                       Context(search_results.text_results,
                               search_results.image_results), query)
    IN  IF search_results.raised # "none"
        THEN [outcome |-> search_results, log |-> s.log, llm_requests |-> <<>>,
              answer |-> [answer |-> "", sources |-> search_results]]
        ELSE IF llm_fails
        THEN [outcome |-> Raised("completion", s.log).outcome, log |-> s.log,
              llm_requests |-> <<request>>,
              answer |-> [answer |-> "", sources |-> search_results]]
        ELSE [outcome |-> [search_results EXCEPT !.keys = {"answer", "sources"}],
              log |-> s.log, llm_requests |-> <<request>>,
              answer |-> [answer |-> Completion(request),
                          sources |-> search_results]]

(***************************************************************************)
(* MultiModalRAG.index_data                                                *)
(***************************************************************************)
\* the text record of an item, every record under the id of the first
TextRecordSameId(cat, i) ==
    [id |-> "text_0", embedding |-> encode(TextContent(cat[i])),
     document |-> TextContent(cat[i]),
     metadata |-> [filename |-> cat[i].filename, name |-> cat[i].name,
                   color |-> cat[i].color, category |-> cat[i].category,
                   price |-> cat[i].price]]

\* the text record of an item, embedded from its description alone
TextRecordEmbedsDescription(cat, i) ==
    [id |-> "text_" \o ToString(i - 1), embedding |-> encode(cat[i].description),
     document |-> TextContent(cat[i]),
     metadata |-> [filename |-> cat[i].filename, name |-> cat[i].name,
                   color |-> cat[i].color, category |-> cat[i].category,
                   price |-> cat[i].price]]

\* index_data: the text record of item i (enumerate counts from 0)
TextRecord(cat, i) ==
    [id |-> "text_" \o ToString(i - 1), embedding |-> encode(TextContent(cat[i])),
     document |-> TextContent(cat[i]),
     metadata |-> [filename |-> cat[i].filename, name |-> cat[i].name,
                   color |-> cat[i].color, category |-> cat[i].category,
                   price |-> cat[i].price]]

\* the image record of an item, carrying the catalog attributes as well
ImageRecordWithAttributes(cat, i) ==
    LET image_description == VisionCaption(cat[i].filename)
    IN  [id |-> "image_" \o ToString(i - 1), embedding |-> encode(image_description),
         document |-> image_description,
         metadata |-> [filename |-> cat[i].filename,
                       image_path |-> "images/" \o cat[i].filename,
                       visual_description |-> image_description,
                       color |-> cat[i].color, category |-> cat[i].category,
                       price |-> cat[i].price]]

\* index_data: the image record of item i
ImageRecord(cat, i) ==
    LET image_description == VisionCaption(cat[i].filename)
    IN  [id |-> "image_" \o ToString(i - 1), embedding |-> encode(image_description),
         document |-> image_description,
         metadata |-> [filename |-> cat[i].filename,
                       image_path |-> "images/" \o cat[i].filename,
                       visual_description |-> image_description]]

\* the external calls of the loop of index_data that can raise
IndexFailures == {"embed_text", "vision", "embed_caption"}

\* the vision calls of index_data, a failed call made a second time
VisionCallsRetried(cat, fail_at, failed) ==
    LET last == IF fail_at = 0 THEN Len(cat)
                ELSE IF failed = "embed_text" THEN fail_at - 1 ELSE fail_at
        calls == [i \in 1..last |-> cat[i].filename]
    IN  IF fail_at > 0 /\ failed = "vision"
        THEN Append(calls, cat[fail_at].filename) ELSE calls

\* index_data: the images the loop hands to the vision model, one per item,
\* until the loop ends or an external call raises at item fail_at
VisionCalls(cat, fail_at, failed) ==
    LET last == IF fail_at = 0 THEN Len(cat)
                ELSE IF failed = "embed_text" THEN fail_at - 1 ELSE fail_at
    IN  [i \in 1..last |-> cat[i].filename]

\* the records of the lists handed to the store as soon as they are built
AddedAsBuilt(built, raised) == built

\* index_data: collection.add comes after the loop, so it runs with the
\* full lists or, when the loop raised, not at all
Added(built, raised) == IF raised = "none" THEN built ELSE <<>>

\* index_data(): the loop over the catalog, then the two insertions
index_data(cat, fail_at, failed) ==
    LET raised == IF fail_at = 0 THEN "none" ELSE failed
        texts == IF fail_at = 0 THEN Len(cat)
                 ELSE IF failed = "embed_text" THEN fail_at - 1 ELSE fail_at
        images == IF fail_at = 0 THEN Len(cat) ELSE fail_at - 1
        text_built == [i \in 1..texts |-> TextRecord(cat, i)]
        image_built == [i \in 1..images |-> ImageRecord(cat, i)]
    IN  [raised |-> raised,
         text_added |-> Added(text_built, raised),
         image_added |-> Added(image_built, raised),
         vision_calls |-> VisionCalls(cat, fail_at, failed)]

(***************************************************************************)
(* The inputs of the model.                                                *)
(***************************************************************************)
Queries == {"Show me red footwear", "What electronics under $300?"}

\* the queries smart_search is called with: one names no color, category or price
SmartQueries == Queries \cup {"I need something for the office"}

Filters ==
    { None,
      Dict(<<>>),
      Dict(<<Plain("color", Str("red"))>>),
      Dict(<<Plain("category", Str("footwear"))>>),
      Dict(<<Plain("color", Str("purple"))>>),
      Dict(<<Ranged("price", "$lt", Num(300))>>),
      Dict(<<Ranged("price", "lt", Num(300))>>),
      Dict(<<Plain("color", Str("white")), Plain("category", Str("footwear"))>>),
      Dict(<<Plain("category", Str("electronics")),
             Ranged("price", "$lt", Num(300))>>),
      Dict(<<Plain("color", Str("white")), Plain("category", Str("electronics")),
             Ranged("price", "$gt", Num(300))>>) }

NoFailure == [embed |-> FALSE, text |-> FALSE, image |-> FALSE]

\* which external calls fail during a call: the embedder, or the store queries
Envs(search_images, search_text) ==
    {[embed |-> TRUE, text |-> FALSE, image |-> FALSE]}
    \cup {[embed |-> FALSE, text |-> ft, image |-> fi] :
            ft \in (IF search_text THEN BOOLEAN ELSE {FALSE}),
            fi \in (IF search_images THEN BOOLEAN ELSE {FALSE})}

NoCall == [op |-> "none", query |-> "", fail_at |-> 0, failed |-> "none"]

Called(op) ==
    [op |-> op, query |-> args.query, fail_at |-> 0, failed |-> "none"]

NoOutcome == [raised |-> "none", keys |-> {}, text_results |-> <<>>,
              image_results |-> <<>>]

NoAnswer == [answer |-> "", sources |-> NoOutcome]

NoMetrics == [by |-> "none"]

\* the arguments of search and hybrid_search, with the environment of the call
Args ==
    {[query |-> query, n_results |-> n_results, filters |-> filters,
      search_images |-> search_images, search_text |-> search_text, env |-> env] :
        query \in Queries, n_results \in 1..MaxN, filters \in Filters,
        search_images \in BOOLEAN, search_text \in BOOLEAN,
        env \in [embed : BOOLEAN, text : BOOLEAN, image : BOOLEAN]}

RelevantArgs == {a \in Args : a.env \in Envs(a.search_images, a.search_text)}

(***************************************************************************)
(* The retriever as a state machine.  A session fixes the catalog, the     *)
(* arguments its calls are made with and the failures of the external      *)
(* services; index_data, search and hybrid_search are then called in any   *)
(* order.                                                                  *)
(***************************************************************************)
Init ==
    /\ catalog \in Catalogs
    /\ text_collection = <<>>
    /\ image_collection = <<>>
    /\ args \in RelevantArgs
    /\ call = NoCall
    /\ outcome = NoOutcome
    /\ store_log = <<>>
    /\ caught = <<>>
    /\ vision_calls = <<>>
    /\ llm_requests = <<>>
    /\ answer = NoAnswer
    /\ predicted = <<>>
    /\ expected = <<>>
    /\ metrics = NoMetrics

\* index_data(): fail_at = 0 when no embedding or vision call fails, else the
\* position of the item at which the call named by failed raises
IndexData ==
    /\ text_collection = <<>>
    /\ image_collection = <<>>
    /\ \E fail_at \in 0..Len(catalog), failed \in IndexFailures :
        /\ fail_at = 0 => failed = "vision"
        /\ \E r \in {index_data(catalog, fail_at, failed)} :
               /\ call' = [op |-> "index_data", query |-> "", fail_at |-> fail_at,
                           failed |-> r.raised]
               /\ text_collection' = text_collection \o r.text_added
               /\ image_collection' = image_collection \o r.image_added
               /\ outcome' = [NoOutcome EXCEPT !.raised = r.raised]
               /\ vision_calls' = r.vision_calls
    /\ store_log' = <<>>
    /\ caught' = <<>>
    /\ llm_requests' = <<>>
    /\ answer' = NoAnswer
    /\ UNCHANGED <<catalog, args, metricsVars>>

\* a search that leaves each collection holding the other's records
SearchSwappingCollections ==
    /\ \E r \in {search(text_collection, image_collection, args.query,
                       args.n_results, args.search_images, args.search_text,
                       args.env)} :
           /\ call' = Called("search")
           /\ outcome' = r.outcome
           /\ store_log' = r.log
           /\ caught' = r.caught
    /\ vision_calls' = <<>>
    /\ llm_requests' = <<>>
    /\ answer' = NoAnswer
    /\ text_collection' = image_collection
    /\ image_collection' = text_collection
    /\ UNCHANGED <<catalog, args, metricsVars>>

\* search(query, n_results, search_images, search_text) on the instance
Search ==
    /\ \E r \in {search(text_collection, image_collection, args.query,
                       args.n_results, args.search_images, args.search_text,
                       args.env)} :
           /\ call' = Called("search")
           /\ outcome' = r.outcome
           /\ store_log' = r.log
           /\ caught' = r.caught
    /\ vision_calls' = <<>>
    /\ llm_requests' = <<>>
    /\ answer' = NoAnswer
    /\ UNCHANGED <<catalog, text_collection, image_collection, args, metricsVars>>

HybridSearch ==
    /\ \E r \in {hybrid_search(text_collection, image_collection, args.query,
                              args.n_results, args.filters, args.search_images,
                              args.search_text, args.env)} :
           /\ call' = Called("hybrid_search")
           /\ outcome' = r.outcome
           /\ store_log' = r.log
           /\ caught' = r.caught
    /\ vision_calls' = <<>>
    /\ llm_requests' = <<>>
    /\ answer' = NoAnswer
    /\ UNCHANGED <<catalog, text_collection, image_collection, args, metricsVars>>

\* rag.smart_search(query, n_results=top_k) as eval_smart.py calls it
SmartSearch ==
    /\ \E query \in SmartQueries :
        \E r \in {smart_search(text_collection, image_collection, query,
                              args.n_results)} :
            /\ call' = [op |-> "smart_search", query |-> query, fail_at |-> 0,
                        failed |-> "none"]
            /\ outcome' = r.outcome
            /\ store_log' = r.log
            /\ caught' = r.caught
    /\ vision_calls' = <<>>
    /\ llm_requests' = <<>>
    /\ answer' = NoAnswer
    /\ UNCHANGED <<catalog, text_collection, image_collection, args, metricsVars>>

\* answer_question(query): the completion request may fail
AnswerQuestion ==
    /\ \E llm_fails \in BOOLEAN :
        \E r \in {answer_question(text_collection, image_collection, args.query,
                                 args.env, llm_fails)} :
            /\ call' = [op |-> "answer_question", query |-> args.query,
                        fail_at |-> 0,
                        failed |-> IF llm_fails THEN "completion" ELSE "none"]
            /\ outcome' = r.outcome
            /\ store_log' = r.log
            /\ llm_requests' = r.llm_requests
            /\ answer' = IF r.outcome.raised = "none" THEN r.answer ELSE NoAnswer
    /\ caught' = <<>>
    /\ vision_calls' = <<>>
    /\ UNCHANGED <<catalog, text_collection, image_collection, args, metricsVars>>

Next == IndexData \/ Search \/ HybridSearch \/ SmartSearch \/ AnswerQuestion

Spec == Init /\ [][Next]_vars

(***************************************************************************)
(* Sessions whose query is the indexed text of a product.                  *)
(***************************************************************************)
RoundTripArgs ==
    {[query |-> IndexedTexts[i], n_results |-> n_results, filters |-> None,
      search_images |-> search_images, search_text |-> TRUE, env |-> env] :
        i \in 1..Len(PRODUCTS), n_results \in 1..MaxN,
        search_images \in BOOLEAN,
        env \in {NoFailure, [NoFailure EXCEPT !.embed = TRUE],
                [NoFailure EXCEPT !.text = TRUE]}}

InitRoundTrip ==
    /\ catalog \in Catalogs
    /\ text_collection = <<>>
    /\ image_collection = <<>>
    /\ args \in RoundTripArgs
    /\ call = NoCall
    /\ outcome = NoOutcome
    /\ store_log = <<>>
    /\ caught = <<>>
    /\ vision_calls = <<>>
    /\ llm_requests = <<>>
    /\ answer = NoAnswer
    /\ predicted = <<>>
    /\ expected = <<>>
    /\ metrics = NoMetrics

SpecRoundTrip == InitRoundTrip /\ [][Next]_vars

(***************************************************************************)
(* The evaluator.  Python divides integers into floats; the quotients are  *)
(* kept here as exact fractions in lowest terms.                           *)
(***************************************************************************)
RECURSIVE GCD(_, _)
GCD(a, b) == IF b = 0 THEN a ELSE GCD(b, a % b)

\* the fraction n/d (d > 0, n >= 0) in lowest terms
Frac(n, d) == LET g == GCD(n, d) IN [num |-> n \div g, den |-> d \div g]

Zero == [num |-> 0, den |-> 1]

RatAdd(x, y) == Frac(x.num * y.den + y.num * x.den, x.den * y.den)

RatMul(x, y) == Frac(x.num * y.num, x.den * y.den)

\* x / y for y > 0
RatDiv(x, y) == Frac(x.num * y.den, x.den * y.num)

Positive(x) == x.num > 0

\* calculate_metrics with the predictions counted as a list, not as a set
calculate_metrics_list(predicted_list, expected_list) ==
    LET predicted_set == Range(predicted_list)
        expected_set == Range(expected_list)
        tp == Cardinality(predicted_set \cap expected_set)
        fp == Len(predicted_list) - tp
        fn == Cardinality(expected_set \ predicted_set)
        precision == IF (tp + fp) > 0 THEN Frac(tp, tp + fp) ELSE Zero
        recall == IF (tp + fn) > 0 THEN Frac(tp, tp + fn) ELSE Zero
        f1 == IF Positive(RatAdd(precision, recall))
              THEN RatDiv(RatMul(Frac(2, 1), RatMul(precision, recall)),
                          RatAdd(precision, recall))
              ELSE Zero
    IN  [precision |-> precision, recall |-> recall, f1 |-> f1,
         tp |-> tp, fp |-> fp, fn |-> fn]

\* calculate_metrics with recall divided by the predicted count
calculate_metrics_recall(predicted_list, expected_list) ==
    LET predicted_set == Range(predicted_list)
        expected_set == Range(expected_list)
        tp == Cardinality(predicted_set \cap expected_set)
        fp == Cardinality(predicted_set \ expected_set)
        fn == Cardinality(expected_set \ predicted_set)
        precision == IF (tp + fp) > 0 THEN Frac(tp, tp + fp) ELSE Zero
        recall == IF (tp + fp) > 0 THEN Frac(tp, tp + fp) ELSE Zero
        f1 == IF Positive(RatAdd(precision, recall))
              THEN RatDiv(RatMul(Frac(2, 1), RatMul(precision, recall)),
                          RatAdd(precision, recall))
              ELSE Zero
    IN  [precision |-> precision, recall |-> recall, f1 |-> f1,
         tp |-> tp, fp |-> fp, fn |-> fn]

\* eval.py: calculate_metrics(predicted, expected)
calculate_metrics(predicted_list, expected_list) ==
    LET predicted_set == Range(predicted_list)
        expected_set == Range(expected_list)
        tp == Cardinality(predicted_set \cap expected_set)
        fp == Cardinality(predicted_set \ expected_set)
        fn == Cardinality(expected_set \ predicted_set)
        precision == IF (tp + fp) > 0 THEN Frac(tp, tp + fp) ELSE Zero
        recall == IF (tp + fn) > 0 THEN Frac(tp, tp + fn) ELSE Zero
        f1 == IF Positive(RatAdd(precision, recall))
              THEN RatDiv(RatMul(Frac(2, 1), RatMul(precision, recall)),
                          RatAdd(precision, recall))
              ELSE Zero
    IN  [precision |-> precision, recall |-> recall, f1 |-> f1,
         tp |-> tp, fp |-> fp, fn |-> fn]

\* eval_hybrid.py: calculate_metrics(predicted, expected)
calculate_metrics_hybrid(predicted_list, expected_list) ==
    LET predicted_set == Range(predicted_list)
        expected_set == Range(expected_list)
        tp == Cardinality(predicted_set \cap expected_set)
        fp == Cardinality(predicted_set \ expected_set)
        fn == Cardinality(expected_set \ predicted_set)
        precision == IF (tp + fp) > 0 THEN Frac(tp, tp + fp) ELSE Zero
        recall == IF (tp + fn) > 0 THEN Frac(tp, tp + fn) ELSE Zero
        f1 == IF Positive(RatAdd(precision, recall))
              THEN RatDiv(RatMul(Frac(2, 1), RatMul(precision, recall)),
                          RatAdd(precision, recall))
              ELSE Zero
    IN  [precision |-> precision, recall |-> recall, f1 |-> f1,
         tp |-> tp, fp |-> fp, fn |-> fn]

\* eval_smart.py: calculate_metrics(predicted, expected)
calculate_metrics_smart(predicted_list, expected_list) ==
    LET predicted_set == Range(predicted_list)
        expected_set == Range(expected_list)
        tp == Cardinality(predicted_set \cap expected_set)
        fp == Cardinality(predicted_set \ expected_set)
        fn == Cardinality(expected_set \ predicted_set)
        precision == IF (tp + fp) > 0 THEN Frac(tp, tp + fp) ELSE Zero
        recall == IF (tp + fn) > 0 THEN Frac(tp, tp + fn) ELSE Zero
        f1 == IF Positive(RatAdd(precision, recall))
              THEN RatDiv(RatMul(Frac(2, 1), RatMul(precision, recall)),
                          RatAdd(precision, recall))
              ELSE Zero
    IN  [precision |-> precision, recall |-> recall, f1 |-> f1,
         tp |-> tp, fp |-> fp, fn |-> fn]

\* the copy of calculate_metrics that a script calls
MetricsOf(by, predicted_list, expected_list) ==
    CASE by = "eval" -> calculate_metrics(predicted_list, expected_list)
      [] by = "eval_hybrid" -> calculate_metrics_hybrid(predicted_list, expected_list)
      [] by = "eval_smart" -> calculate_metrics_smart(predicted_list, expected_list)

\* the filenames the evaluation sets name
Filenames == {"red_running_shoes.jpg", "white_sneakers.jpg", "brown_boots.jpg"}

FilenameLists == SeqsUpTo(Filenames, MaxLen)

\* the lists with a given set of elements: its permutations and repetitions
ListsOf == [S \in SUBSET Filenames |-> {l \in FilenameLists : Range(l) = S}]

(***************************************************************************)
(* The evaluator as a state machine: the two lists are the inputs, each    *)
(* script applies its copy of calculate_metrics to them.                   *)
(***************************************************************************)
InitMetrics ==
    /\ catalog = Downloaded(1..Len(PRODUCTS))
    /\ text_collection = <<>>
    /\ image_collection = <<>>
    /\ args = [query |-> "Show me red footwear", n_results |-> 1,
               filters |-> None, search_images |-> TRUE, search_text |-> TRUE,
               env |-> NoFailure]
    /\ call = NoCall
    /\ outcome = NoOutcome
    /\ store_log = <<>>
    /\ caught = <<>>
    /\ vision_calls = <<>>
    /\ llm_requests = <<>>
    /\ answer = NoAnswer
    /\ predicted \in FilenameLists
    /\ expected \in FilenameLists
    /\ metrics = NoMetrics

Scored(by, m) ==
    [by |-> by, precision |-> m.precision, recall |-> m.recall, f1 |-> m.f1,
     tp |-> m.tp, fp |-> m.fp, fn |-> m.fn]

EvalMetrics ==
    /\ metrics' = Scored("eval", calculate_metrics(predicted, expected))
    /\ UNCHANGED <<retrieverVars, predicted, expected>>

HybridMetrics ==
    /\ metrics' = Scored("eval_hybrid", calculate_metrics_hybrid(predicted, expected))
    /\ UNCHANGED <<retrieverVars, predicted, expected>>

SmartMetrics ==
    /\ metrics' = Scored("eval_smart", calculate_metrics_smart(predicted, expected))
    /\ UNCHANGED <<retrieverVars, predicted, expected>>

NextMetrics == EvalMetrics \/ HybridMetrics \/ SmartMetrics

SpecMetrics == InitMetrics /\ [][NextMetrics]_vars

(***************************************************************************)
(* The evaluation runs: each step is one test case of a run's loop, the    *)
(* search call, the predicted list and its score.  A run ends at the first *)
(* call that raises.                                                       *)
(***************************************************************************)
\* expected_items of the test case with a given query
ExpectedItems(query) ==
    CASE query = "Show me red footwear" -> <<"red_running_shoes.jpg">>
      [] query = "What electronics under $300?" -> <<"white_headphones.jpg">>
      [] OTHER -> <<>>

\* predicted, as appended: text results' filenames, then image results'
Appended(search_results) ==
    [i \in 1..Len(search_results.text_results) |->
        search_results.text_results[i].metadata.filename]
    \o [i \in 1..Len(search_results.image_results) |->
        search_results.image_results[i].metadata.filename]

\* list(S): the elements of a set in the order its iteration gives, which
\* for strings varies with the interpreter's hash seed
Orderings(S) ==
    {l \in [1..Cardinality(S) -> S] : \A i, j \in 1..Cardinality(S) :
                                          l[i] = l[j] => i = j}

\* the distinct filenames in any order, none cut off
PredictedListsUncut(search_results, top_k) ==
    Orderings(Range(Appended(search_results)))

\* list(set(predicted))[:top_k]: the lists the statement can give
PredictedLists(search_results, top_k) ==
    {Take(l, top_k) : l \in Orderings(Range(Appended(search_results)))}

\* the arguments of a test case: both modalities, as the runs call
EvalArgs == {a \in RelevantArgs : a.search_images /\ a.search_text}

InitEval ==
    /\ catalog \in Catalogs
    /\ text_collection = <<>>
    /\ image_collection = <<>>
    /\ args \in EvalArgs
    /\ call = NoCall
    /\ outcome = NoOutcome
    /\ store_log = <<>>
    /\ caught = <<>>
    /\ vision_calls = <<>>
    /\ llm_requests = <<>>
    /\ answer = NoAnswer
    /\ predicted = <<>>
    /\ expected = <<>>
    /\ metrics = NoMetrics

\* one test case of a run: the results r of its search call are scored
\* unless the call raised
TestCase(by, r) ==
    /\ outcome' = r.outcome
    /\ store_log' = r.log
    /\ caught' = r.caught
    /\ expected' = ExpectedItems(call'.query)
    /\ IF r.outcome.raised # "none"
       THEN /\ predicted' = <<>>
            /\ metrics' = NoMetrics
       ELSE \E l \in PredictedLists(r.outcome, args.n_results) :
                /\ predicted' = l
                /\ metrics' = Scored(by, MetricsOf(by, l, expected'))
    /\ vision_calls' = <<>>
    /\ llm_requests' = <<>>
    /\ answer' = NoAnswer
    /\ UNCHANGED <<catalog, text_collection, image_collection, args>>

\* run_evaluation: rag.search(query, n_results=top_k)
RunEvaluation ==
    /\ call' = Called("run_evaluation")
    /\ \E r \in {search(text_collection, image_collection, args.query,
                        args.n_results, TRUE, TRUE, args.env)} :
           TestCase("eval", r)

\* run_hybrid_evaluation: rag.hybrid_search(query, n_results=top_k, filters)
RunHybridEvaluation ==
    /\ call' = Called("run_hybrid_evaluation")
    /\ \E r \in {hybrid_search(text_collection, image_collection, args.query,
                               args.n_results, args.filters, TRUE, TRUE,
                               args.env)} :
           TestCase("eval_hybrid", r)

\* run_smart_evaluation: rag.smart_search(query, n_results=top_k)
RunSmartEvaluation ==
    /\ call' = Called("run_smart_evaluation")
    /\ \E r \in {smart_search(text_collection, image_collection, args.query,
                              args.n_results)} :
           TestCase("eval_smart", r)

NextEval ==
    IndexData \/ RunEvaluation \/ RunHybridEvaluation \/ RunSmartEvaluation

SpecEval == InitEval /\ [][NextEval]_vars

(***************************************************************************)
(* Properties of calculate_metrics.                                        *)
(***************************************************************************)
PredictedSet == Range(predicted)

ExpectedSet == Range(expected)

\* C1: each copy of calculate_metrics returns precision = |P n E| / |P| (0 if P
\* is empty), recall = |P n E| / |E| (0 if E is empty), an F1 with
\* F1 * (precision + recall) = 2 * precision * recall (0 if both are 0), and
\* tp = |P n E|, fp = |P \ E|, fn = |E \ P|, P and E being the sets of the lists.
C1_MetricsFormulas ==
    metrics.by # "none" =>
        LET inter == Cardinality(PredictedSet \cap ExpectedSet)
            p == IF PredictedSet = {} THEN Zero
                 ELSE Frac(inter, Cardinality(PredictedSet))
            r == IF ExpectedSet = {} THEN Zero
                 ELSE Frac(inter, Cardinality(ExpectedSet))
        IN  /\ metrics.precision = p
            /\ metrics.recall = r
            /\ IF p = Zero /\ r = Zero THEN metrics.f1 = Zero
               ELSE RatMul(metrics.f1, RatAdd(p, r))
                        = RatMul(Frac(2, 1), RatMul(p, r))
            /\ metrics.tp = inter
            /\ metrics.fp = Cardinality(PredictedSet \ ExpectedSet)
            /\ metrics.fn = Cardinality(ExpectedSet \ PredictedSet)

\* a scoring with a hit, a false positive and a miss, from duplicated entries
C1_Witness ==
    /\ metrics.by = "eval_smart"
    /\ PredictedSet \cap ExpectedSet # {}
    /\ PredictedSet \ ExpectedSet # {}
    /\ ExpectedSet \ PredictedSet # {}
    /\ Len(predicted) > Cardinality(PredictedSet)
    /\ metrics.f1 # Zero

\* C2: the six values depend on the sets of the two lists only: any list with
\* the same elements as predicted (a permutation, a repetition) gives the same
\* values, and so does any list with the same elements as expected.
C2_SetSemantics ==
    metrics.by # "none" =>
        LET same(a, b) == Scored(metrics.by, MetricsOf(metrics.by, a, b)) = metrics
        IN  /\ \A p2 \in ListsOf[PredictedSet] : same(p2, expected)
            /\ \A e2 \in ListsOf[ExpectedSet] : same(predicted, e2)

\* a scoring of a predicted list that repeats an element out of order
C2_Witness ==
    /\ metrics.by = "eval"
    /\ Len(predicted) = 3
    /\ predicted[1] = predicted[3]
    /\ predicted[1] # predicted[2]
    /\ Len(expected) > Cardinality(ExpectedSet)
    /\ metrics.tp = 1

(***************************************************************************)
(* Properties of the retriever.                                            *)
(***************************************************************************)
HybridCalled == call.op = "hybrid_search"

SearchCalled == call.op = "search"

Indexed == text_collection # <<>> /\ image_collection # <<>>

\* the store answered every query of the last call
StoreAnswered == \A k \in 1..Len(store_log) : store_log[k].status = "ok"

\* the log entries of the last call for one collection
LogOf(name) == SelectSeq(store_log, LAMBDA e : e.request.collection = name)

\* what a filter asks of a record, entry by entry
EntryHolds(meta, e) ==
    /\ e.key \in DOMAIN meta
    /\ LET mv == FieldVal(meta, e.key)
       IN  IF ~e.is_dict THEN mv = e.value
           ELSE CASE e.op = "$lt" -> mv.t = "num" /\ mv.i < e.value.i
                  [] e.op = "$gt" -> mv.t = "num" /\ mv.i > e.value.i
                  [] e.op = "$eq" -> mv = e.value
                  [] OTHER -> FALSE

FilterHolds(meta, filters) ==
    \A k \in 1..Len(filters.items) : EntryHolds(meta, filters.items[k])

\* the positions of the records of a collection that satisfy the filters
Filtered(collection, filters) ==
    {i \in 1..Len(collection) : FilterHolds(collection[i].metadata, filters)}

\* the same call of search, made with the arguments of the session
SearchOutcome(env) ==
    search(text_collection, image_collection, args.query, args.n_results,
           args.search_images, args.search_text, env).outcome

HybridOutcome(filters, env) ==
    hybrid_search(text_collection, image_collection, args.query, args.n_results,
                  filters, args.search_images, args.search_text, env).outcome

C4_ZeroMatchIsEmpty ==
    (HybridCalled /\ ~args.env.embed /\ Truthy(args.filters)) =>
        /\ outcome.raised = "none"
        /\ (args.search_text /\ Filtered(text_collection, args.filters) = {})
              => outcome.text_results = <<>>
        /\ (args.search_images /\ Filtered(image_collection, args.filters) = {})
              => outcome.image_results = <<>>

\* the store answered a well-formed filter on indexed text records with no hit
C4_Witness ==
    /\ HybridCalled
    /\ Indexed
    /\ args.n_results >= 1
    /\ args.filters = Dict(<<Plain("color", Str("purple"))>>)
    /\ args.search_text
    /\ Len(LogOf("text")) = 1
    /\ LogOf("text")[1].status = "ok"
    /\ outcome.raised = "none"
    /\ outcome.text_results = <<>>

\* the predicate the claim gives for one entry of the filter
EntryPredicate(e) ==
    IF e.is_dict THEN [key |-> e.key, op |-> e.op, value |-> e.value]
    ELSE [key |-> e.key, op |-> "$eq", value |-> e.value]

\* C5: the predicate hybrid_search hands to the store is: none for an absent
\* or empty filter; the bare predicate of the field for a one-field filter;
\* for two or more fields the AND of exactly one predicate per field.
C5_WhereTranslation ==
    HybridCalled =>
        \A k \in 1..Len(store_log) :
            LET w == store_log[k].request.where
                items == args.filters.items
            IN  /\ (args.filters.none \/ Len(items) = 0) => w = NoWhere
                /\ Len(items) = 1 =>
                      /\ w.kind = "cond"
                      /\ w.conds = <<EntryPredicate(items[1])>>
                /\ Len(items) >= 2 =>
                      /\ w.kind = "and"
                      /\ Len(w.conds) = Len(items)
                      /\ \A j \in 1..Len(items) : w.conds[j] = EntryPredicate(items[j])

\* a three-field filter with a range entry went to both collections
C5_Witness ==
    /\ HybridCalled
    /\ Len(args.filters.items) = 3
    /\ Len(store_log) = 2
    /\ store_log[1].request.where.kind = "and"
    /\ store_log[2].request.where.conds[3].op = "$gt"

\* the result list of one modality is the head of the filtered records ranked
\* by distance: every entry satisfies the filter, and no record that satisfies
\* it and was left out is nearer than an entry that was returned
RankedFiltered(results, collection, filters) ==
    LET F == Filtered(collection, filters)
        d(i) == Distance(collection[i].embedding, encode(args.query))
        returned(i) == \E r \in 1..Len(results) :
                          results[r].metadata.filename = collection[i].metadata.filename
    IN  /\ Len(results) = Min(args.n_results, Cardinality(F))
        /\ \A r \in 1..Len(results) : FilterHolds(results[r].metadata, filters)
        /\ \A r \in 1..(Len(results) - 1) : results[r].distance <= results[r + 1].distance
        /\ \A i \in F : \A r \in 1..Len(results) :
              ~returned(i) => results[r].distance <= d(i)

\* C6: for a non-empty filter every returned hit satisfies every predicate of
\* the filter, and when the store answered, the hits of a modality are the
\* nearest of the records that satisfy the filter, not what the filter leaves
\* of the nearest records.
C6_FilterBeforeRank ==
    (HybridCalled /\ Truthy(args.filters) /\ outcome.raised = "none") =>
        /\ \A r \in 1..Len(outcome.text_results) :
              FilterHolds(outcome.text_results[r].metadata, args.filters)
        /\ \A r \in 1..Len(outcome.image_results) :
              FilterHolds(outcome.image_results[r].metadata, args.filters)
        /\ (args.search_text /\ StoreAnswered)
              => RankedFiltered(outcome.text_results, text_collection, args.filters)
        /\ (args.search_images /\ StoreAnswered)
              => RankedFiltered(outcome.image_results, image_collection, args.filters)

\* a hit that satisfies the filter although 2n records that do not are nearer
C6_Witness ==
    /\ HybridCalled
    /\ Len(args.filters.items) = 2
    /\ args.n_results >= 1
    /\ Len(outcome.text_results) >= 1
    /\ Cardinality({i \in 1..Len(text_collection) :
            /\ ~FilterHolds(text_collection[i].metadata, args.filters)
            /\ Distance(text_collection[i].embedding, encode(args.query))
                  < outcome.text_results[1].distance}) >= 2 * args.n_results

\* C7: for each selected modality hybrid_search asks the store for 2n
\* candidates under the filter; of the k hits the store returns it returns
\* the first min(n, k) in the store's order, distance ascending: at most n
\* entries, fewer than n exactly when k < n.
C7_OverfetchTruncate ==
    (HybridCalled /\ outcome.raised = "none") =>
        /\ Len(LogOf("text")) = (IF args.search_text THEN 1 ELSE 0)
        /\ Len(LogOf("image")) = (IF args.search_images THEN 1 ELSE 0)
        /\ \A j \in 1..Len(store_log) :
              LET e == store_log[j]
                  k == Len(e.hits)
                  n == args.n_results
                  results == IF e.request.collection = "text"
                             THEN outcome.text_results ELSE outcome.image_results
              IN  /\ e.request.n_results = 2 * n
                  /\ e.request.where = WhereClause(args.filters)
                  /\ e.status = "ok" =>
                        /\ Len(results) = Min(n, k)
                        /\ Len(results) <= n
                        /\ (Len(results) < n) <=> (k < n)
                        /\ \A r \in 1..Len(results) :
                              /\ results[r].metadata = e.hits[r].metadata
                              /\ results[r].distance = e.hits[r].distance
                        /\ \A r \in 1..(Len(results) - 1) :
                              results[r].distance <= results[r + 1].distance

\* the store returned more than n hits for one modality and fewer for the other
C7_Witness ==
    /\ HybridCalled
    /\ args.n_results = 2
    /\ Len(store_log) = 2
    /\ store_log[1].status = "ok"
    /\ Len(store_log[1].hits) = 3
    /\ Len(outcome.text_results) = 2
    /\ store_log[2].status = "ok"
    /\ Len(store_log[2].hits) < 2
    /\ Len(outcome.image_results) = Len(store_log[2].hits)

\* C8: when the store query of one modality fails, hybrid_search returns
\* normally, that modality's list is empty and the other modality's list is
\* what it is when nothing fails, whichever of the two queries fails.
C8_FailureIsolated ==
    (HybridCalled /\ ~args.env.embed /\ args.search_text /\ args.search_images) =>
        LET ok == HybridOutcome(args.filters, NoFailure)
        IN  /\ outcome.raised = "none"
            /\ args.env.text => outcome.text_results = <<>>
            /\ args.env.image => outcome.image_results = <<>>
            /\ (args.env.text /\ ~args.env.image)
                  => outcome.image_results = ok.image_results
            /\ (args.env.image /\ ~args.env.text)
                  => outcome.text_results = ok.text_results

\* the text query failed first and the image query still gave its hits
C8_Witness ==
    /\ HybridCalled
    /\ args.env.text
    /\ ~args.env.image
    /\ Len(caught) = 1
    /\ caught[1].modality = "text"
    /\ outcome.raised = "none"
    /\ outcome.text_results = <<>>
    /\ Len(outcome.image_results) >= 1

\* how a hybrid_search call went
FailureKind(filters, env) ==
    LET o == HybridOutcome(filters, env)
        selected == args.search_text \/ args.search_images
    IN  IF env.embed THEN "embedding failure"
        ELSE IF selected /\ ~ValidWhere(WhereClause(filters)) THEN "malformed filter"
        ELSE IF (args.search_text /\ env.text) \/ (args.search_images /\ env.image)
             THEN "store failure"
        ELSE IF Truthy(filters) /\ o.text_results = <<>> /\ o.image_results = <<>>
             THEN "zero matches"
        ELSE "other"

\* what the caller of hybrid_search holds afterwards: the exception, or the
\* returned dict with its query, filters and result lists
CallerView(filters, o) ==
    [raised |-> o.raised, query |-> args.query, filters |-> filters,
     text_results |-> o.text_results, image_results |-> o.image_results]

\* C9: an embedding failure, a store failure, a malformed filter and a query
\* that matched nothing each leave the caller of hybrid_search with something
\* different: two calls that went differently never look the same to it.
C9_FailuresDistinct ==
    (HybridCalled /\ Indexed) =>
        \A env2 \in Envs(args.search_images, args.search_text) :
            LET kinds == {"embedding failure", "malformed filter",
                          "store failure", "zero matches"}
                k1 == FailureKind(args.filters, args.env)
                k2 == FailureKind(args.filters, env2)
            IN  (k1 \in kinds /\ k2 \in kinds /\ k1 # k2)
                    => CallerView(args.filters, outcome)
                         # CallerView(args.filters, HybridOutcome(args.filters, env2))

\* C10: search issues one unfiltered query for n records to each selected
\* collection, in the order text, image, and none to an unselected one; when
\* it returns, an unselected modality's list is empty and a selected one's
\* holds the store's hits in the store's order, at most n; an empty collection
\* gives an empty list and no error.
C10_SearchPerModality ==
    SearchCalled =>
        /\ \A j \in 1..Len(store_log) :
              /\ store_log[j].request.n_results = args.n_results
              /\ store_log[j].request.where = NoWhere
        /\ Len(LogOf("text")) <= (IF args.search_text THEN 1 ELSE 0)
        /\ Len(LogOf("image")) <= (IF args.search_images THEN 1 ELSE 0)
        /\ args.env = NoFailure => outcome.raised = "none"
        /\ outcome.raised = "none" =>
              /\ Len(LogOf("text")) = (IF args.search_text THEN 1 ELSE 0)
              /\ Len(LogOf("image")) = (IF args.search_images THEN 1 ELSE 0)
              /\ LogOf("text") \o LogOf("image") = store_log
              /\ ~args.search_text => outcome.text_results = <<>>
              /\ ~args.search_images => outcome.image_results = <<>>
              /\ args.search_text =>
                    LET hits == LogOf("text")[1].hits
                    IN  /\ Len(outcome.text_results) = Len(hits)
                        /\ Len(hits) = Min(args.n_results, Len(text_collection))
                        /\ \A r \in 1..Len(hits) :
                              /\ outcome.text_results[r].content = hits[r].document
                              /\ outcome.text_results[r].metadata = hits[r].metadata
                              /\ outcome.text_results[r].distance = hits[r].distance
              /\ args.search_images =>
                    LET hits == LogOf("image")[1].hits
                    IN  /\ Len(outcome.image_results) = Len(hits)
                        /\ Len(hits) = Min(args.n_results, Len(image_collection))
                        /\ \A r \in 1..Len(hits) :
                              /\ outcome.image_results[r].visual_description
                                    = hits[r].document
                              /\ outcome.image_results[r].metadata = hits[r].metadata
                              /\ outcome.image_results[r].distance = hits[r].distance

\* search of the text collection alone returned n hits and asked nothing of
\* the image collection
C10_Witness ==
    /\ SearchCalled
    /\ Indexed
    /\ args.search_text
    /\ ~args.search_images
    /\ args.n_results = 2
    /\ Len(store_log) = 1
    /\ store_log[1].request.collection = "text"
    /\ Len(outcome.text_results) = 2
    /\ outcome.text_results[1].distance < outcome.text_results[2].distance
    /\ outcome.image_results = <<>>

(***************************************************************************)
(* Properties of the indexer.                                              *)
(***************************************************************************)
IndexCalled == call.op = "index_data"

IndexCompleted == IndexCalled /\ outcome.raised = "none"

Ids(collection) == {collection[i].id : i \in 1..Len(collection)}

\* the positions of the catalog items with a given filename
ItemsNamed(filename) == {j \in 1..Len(catalog) : catalog[j].filename = filename}

\* C13: after index_data completes on a catalog of k items each collection
\* holds exactly k records with pairwise distinct ids, one per catalog item:
\* record i has the filename of item i, which no other item has, and a text
\* record carries the color, category and price of its item.
C13_OneRecordPerItem ==
    IndexCompleted =>
        LET k == Len(catalog)
        IN  /\ Len(text_collection) = k
            /\ Len(image_collection) = k
            /\ Cardinality(Ids(text_collection)) = k
            /\ Cardinality(Ids(image_collection)) = k
            /\ \A i \in 1..k :
                  /\ text_collection[i].metadata.filename = catalog[i].filename
                  /\ image_collection[i].metadata.filename = catalog[i].filename
                  /\ ItemsNamed(catalog[i].filename) = {i}
                  /\ text_collection[i].metadata.color = catalog[i].color
                  /\ text_collection[i].metadata.category = catalog[i].category
                  /\ text_collection[i].metadata.price = catalog[i].price

\* index_data completed on the whole product list
C13_Witness ==
    /\ IndexCompleted
    /\ Len(catalog) = Len(PRODUCTS)
    /\ Len(text_collection) = Len(PRODUCTS)
    /\ Len(image_collection) = Len(PRODUCTS)
    /\ text_collection[4].id = "text_3"
    /\ image_collection[4].metadata.filename = "white_headphones.jpg"

\* how often the last call handed an image to the vision model
VisionCallsFor(filename) ==
    Cardinality({c \in 1..Len(vision_calls) : vision_calls[c] = filename})

\* C14: when the vision call fails for an item, index_data raises that error
\* to its caller, the item gets no image record, and the call is not made
\* again: in any run of index_data the vision model is called at most once
\* per item.
C14_VisionFailureNotRetried ==
    IndexCalled =>
        /\ \A j \in 1..Len(catalog) : VisionCallsFor(catalog[j].filename) <= 1
        /\ call.failed = "vision" =>
              /\ outcome.raised = "vision"
              /\ VisionCallsFor(catalog[call.fail_at].filename) = 1
              /\ \A i \in 1..Len(image_collection) :
                    image_collection[i].metadata.filename
                        # catalog[call.fail_at].filename

\* the vision call failed for the second item, after one that succeeded
C14_Witness ==
    /\ IndexCalled
    /\ call.failed = "vision"
    /\ call.fail_at = 2
    /\ vision_calls = <<catalog[1].filename, catalog[2].filename>>
    /\ outcome.raised = "vision"

\* C18: when the embedding or the vision call fails for any item of the
\* catalog, neither collection has received a record of any item when the
\* error reaches the caller.
C18_IndexAllOrNothing ==
    (IndexCalled /\ call.fail_at > 0) =>
        /\ outcome.raised \in IndexFailures
        /\ text_collection = <<>>
        /\ image_collection = <<>>

\* the caption of the last item could not be embedded, after every other item
\* was processed
C18_Witness ==
    /\ IndexCalled
    /\ Len(catalog) >= 3
    /\ call.fail_at = Len(catalog)
    /\ call.failed = "embed_caption"
    /\ Len(vision_calls) = Len(catalog)
    /\ outcome.raised = "embed_caption"
    /\ text_collection = <<>>

(***************************************************************************)
(* Properties of the answer composer.                                      *)
(***************************************************************************)
AnswerCalled == call.op = "answer_question"

\* C15: answer_question retrieves the top hits of both modalities and then
\* makes exactly one completion request, whose context lists the text hits
\* before the visual hits; on success it returns the model's answer with the
\* retrieval results the context was built from; when the request fails the
\* failure reaches the caller and no second request is made.
C15_AnswerOneRequest ==
    AnswerCalled =>
        /\ Len(llm_requests) <= 1
        /\ ~StoreAnswered \/ Len(store_log) < 2
              => /\ llm_requests = <<>>
                 /\ outcome.raised \in {"embedding", "store"}
        /\ (StoreAnswered /\ Len(store_log) = 2) =>
              LET thits == store_log[1].hits
                  ihits == store_log[2].hits
                  context == llm_requests[1].context
                  t == Len(thits)
              IN  /\ store_log[1].request = Request("text", AnswerTopN, NoWhere)
                  /\ store_log[2].request = Request("image", AnswerTopN, NoWhere)
                  /\ Len(llm_requests) = 1
                  /\ Len(context) = t + Len(ihits) + 2
                  /\ context[1] = "TEXT DESCRIPTIONS:"
                  /\ \A i \in 1..t : context[1 + i] = "- " \o thits[i].document
                  /\ context[t + 2] = "\nVISUAL DESCRIPTIONS:"
                  /\ \A i \in 1..Len(ihits) :
                        context[t + 2 + i] =
                            "- " \o ihits[i].document \o " (from "
                                 \o ihits[i].metadata.filename \o ")"
                  /\ call.failed = "completion" =>
                        /\ outcome.raised = "completion"
                        /\ answer = NoAnswer
                  /\ call.failed = "none" =>
                        /\ outcome.raised = "none"
                        /\ answer.answer = Completion(llm_requests[1])
                        /\ answer.sources.text_results = TextEntries(thits, t)
                        /\ answer.sources.image_results
                              = ImageEntries(ihits, Len(ihits))

\* an answer built from three text hits and three visual hits
C15_Witness ==
    /\ AnswerCalled
    /\ Indexed
    /\ call.failed = "none"
    /\ Len(llm_requests) = 1
    /\ Len(llm_requests[1].context) = 8
    /\ Len(answer.sources.text_results) = 3
    /\ Len(answer.sources.image_results) = 3
    /\ answer.answer # ""

(***************************************************************************)
(* Frame of the collections.                                               *)
(***************************************************************************)
ReadCalls == {"search", "hybrid_search", "answer_question"}

\* C16: only index_data writes the collections: a step of search,
\* hybrid_search or answer_question, succeeding or failing, leaves the records
\* of both collections as they were, and no step puts a record of one
\* collection into the other.
C16_CollectionsFrame ==
    [][/\ call'.op \in ReadCalls =>
            /\ text_collection' = text_collection
            /\ image_collection' = image_collection
       /\ Ids(text_collection) \cap Ids(image_collection') = {}
       /\ Ids(image_collection) \cap Ids(text_collection') = {}
       /\ Ids(text_collection') \cap Ids(image_collection') = {}]_vars

\* a failed read call on collections that hold every item
C16_Witness ==
    /\ call.op \in ReadCalls
    /\ outcome.raised = "store"
    /\ store_log # <<>>
    /\ Len(text_collection) = Len(catalog)
    /\ Len(image_collection) = Len(catalog)
    /\ Len(catalog) = 4

(***************************************************************************)
(* The filter on the image collection.                                     *)
(***************************************************************************)
ProductAttributes == {"color", "category", "price"}

NamesProductAttribute(filters) ==
    \E k \in 1..Len(filters.items) : filters.items[k].key \in ProductAttributes

\* C19: hybrid_search sends the image collection the where clause it sends
\* the text collection; image records hold only filename, image_path and
\* visual_description, so a non-empty filter naming color, category or price
\* is satisfied by no image record and image_results is empty, whatever the
\* query and n, while text_results need not be.
C19_ImageFilterMatchesNothing ==
    (HybridCalled /\ Truthy(args.filters) /\ NamesProductAttribute(args.filters))
        => /\ \A i \in 1..Len(image_collection) :
                DOMAIN image_collection[i].metadata
                    = {"filename", "image_path", "visual_description"}
           /\ Filtered(image_collection, args.filters) = {}
           /\ outcome.image_results = <<>>
           /\ \A k \in 1..Len(LogOf("image")) :
                /\ LogOf("image")[k].hits = <<>>
                /\ LogOf("image")[k].request.where = WhereClause(args.filters)
           /\ \A k \in 1..Len(LogOf("text")) :
                LogOf("text")[k].request.where = WhereClause(args.filters)

\* both collections asked with the same clause: text hits, no image hit
C19_Witness ==
    /\ HybridCalled
    /\ Indexed
    /\ Truthy(args.filters)
    /\ NamesProductAttribute(args.filters)
    /\ StoreAnswered
    /\ Len(LogOf("text")) = 1
    /\ Len(LogOf("image")) = 1
    /\ LogOf("text")[1].request.where = LogOf("image")[1].request.where
    /\ outcome.text_results # <<>>
    /\ outcome.image_results = <<>>

(***************************************************************************)
(* Properties asked of smart_search.                                       *)
(***************************************************************************)
SmartCalled == call.op = "smart_search"

\* the filter the color, category and price terms of a query stand for
DerivedFilters(query) ==
    CASE query = "Show me red footwear" ->
            Dict(<<Plain("color", Str("red")), Plain("category", Str("footwear"))>>)
      [] query = "What electronics under $300?" ->
            Dict(<<Plain("category", Str("electronics")),
                   Ranged("price", "$lt", Num(300))>>)
      [] OTHER -> None

\* what search gives for the query and n of the last call, both modalities
SearchOf(query) ==
    search(text_collection, image_collection, query, args.n_results, TRUE, TRUE,
           NoFailure).outcome

\* what hybrid_search gives for the query and n of the last call and a filter
HybridOf(query, filters) ==
    hybrid_search(text_collection, image_collection, query, args.n_results,
                  filters, TRUE, TRUE, NoFailure).outcome

\* C11: smart_search(query, n) derives a filter from the query and gives
\* what hybrid_search gives with that filter; when the query holds no
\* color, category or price term it gives what search(query, n) gives.
C11_SmartSearchDelegates ==
    (SmartCalled /\ args.env = NoFailure) =>
        LET filters == DerivedFilters(call.query)
        IN  /\ outcome.raised = "none"
            /\ Truthy(filters) =>
                  /\ outcome.text_results = HybridOf(call.query, filters).text_results
                  /\ outcome.image_results = HybridOf(call.query, filters).image_results
            /\ ~Truthy(filters) =>
                  /\ outcome.text_results = SearchOf(call.query).text_results
                  /\ outcome.image_results = SearchOf(call.query).image_results

\* C12: smart_search("What electronics under $300?") gives the results of
\* hybrid_search for the same query and n with the filter
\* {category: electronics, price: {$lt: 300}}.
C12_SmartSearchElectronics ==
    (SmartCalled /\ args.env = NoFailure
        /\ call.query = "What electronics under $300?") =>
        LET manual == Dict(<<Plain("category", Str("electronics")),
                             Ranged("price", "$lt", Num(300))>>)
        IN  /\ outcome.raised = HybridOf(call.query, manual).raised
            /\ outcome.text_results = HybridOf(call.query, manual).text_results
            /\ outcome.image_results = HybridOf(call.query, manual).image_results

(***************************************************************************)
(* Round trip of indexing and searching.                                   *)
(***************************************************************************)
\* C17: once index_data has indexed the catalog, a search whose query is the
\* indexed text of an item (name - description - color - category) returns
\* that item as the first text result, and no text record is nearer to the
\* query than it.
C17_RoundTrip ==
    (SearchCalled /\ outcome.raised = "none"
        /\ Len(text_collection) = Len(catalog)) =>
        \A i \in 1..Len(catalog) :
            args.query = TextContent(catalog[i]) =>
                /\ outcome.text_results # <<>>
                /\ outcome.text_results[1].content = TextContent(catalog[i])
                /\ outcome.text_results[1].metadata.filename = catalog[i].filename
                /\ \A j \in 1..Len(text_collection) :
                      outcome.text_results[1].distance
                          <= Distance(text_collection[j].embedding,
                                      encode(args.query))

\* the second product's text found first among four records
C17_Witness ==
    /\ SearchCalled
    /\ outcome.raised = "none"
    /\ Len(text_collection) = 4
    /\ args.query = TextContent(catalog[2])
    /\ outcome.text_results[1].metadata.filename = catalog[2].filename
    /\ outcome.text_results[1].distance = 0

(***************************************************************************)
(* Properties of the evaluation runs.                                      *)
(***************************************************************************)
EvalRuns == {"run_evaluation", "run_hybrid_evaluation", "run_smart_evaluation"}

\* a run has scored a predicted list for the query of the last test case
ListScored == call.op \in EvalRuns /\ metrics # NoMetrics

\* the distinct filenames over the text and image results of the last call
ReturnedFilenames ==
    {outcome.text_results[i].metadata.filename :
        i \in 1..Len(outcome.text_results)}
    \cup {outcome.image_results[i].metadata.filename :
            i \in 1..Len(outcome.image_results)}

\* C20: in every evaluation run the predicted list that is scored holds no
\* filename twice, has min(top_k, d) entries, d being the number of distinct
\* filenames over the text and image results, and holds only filenames of
\* returned hits.  (That the filenames discarded when d > top_k are not
\* chosen by distance rank shows in C20_Witness, where the nearest hit is
\* the one discarded.)
C20_PredictedList ==
    ListScored =>
        /\ \A i, j \in 1..Len(predicted) : predicted[i] = predicted[j] => i = j
        /\ Len(predicted) = Min(args.n_results, Cardinality(ReturnedFilenames))
        /\ Range(predicted) \subseteq ReturnedFilenames
        /\ expected = ExpectedItems(args.query)
        /\ metrics.tp = Cardinality(Range(predicted) \cap Range(expected))

\* more distinct filenames than top_k, and the nearest text hit is discarded
C20_Witness ==
    /\ ListScored
    /\ call.op = "run_evaluation"
    /\ Cardinality(ReturnedFilenames) > args.n_results
    /\ Len(predicted) = args.n_results
    /\ outcome.text_results # <<>>
    /\ outcome.text_results[1].metadata.filename \notin Range(predicted)
    /\ \E i \in 1..Len(outcome.text_results) :
          /\ i > 1
          /\ outcome.text_results[i].metadata.filename \in Range(predicted)

====
